---------------------------- MODULE Spec2Model ----------------------------
(***************************************************************************)
(* Citation-aware chunking (src/ingestion.py) and citation aggregation     *)
(* (src/citation_handler.py) of the RAG pipeline.                          *)
(*                                                                         *)
(* A Python str is modelled as the sequence of its Unicode code points, so *)
(* that regular expressions, case folding, str comparison and concatenation*)
(* are computed character by character.  None is modelled by the Option    *)
(* records NoneStr / NoneInt.                                              *)
(***************************************************************************)
EXTENDS Integers, Sequences, FiniteSets, TLC

VARIABLES
    \* ---- UniversalDocumentProcessor.load_and_process ----
    file_path,        \* self.file_path
    raw_documents,    \* raw_documents: what loader.load() returned
    idx,              \* position of the for-loop over raw_documents
    current_section,  \* local current_section
    citation_ref,     \* local citation_ref
    processed_docs,   \* processed_docs: metadata of the emitted Documents
    returned,         \* the list load_and_process returns
    printed,          \* what load_and_process has printed to stdout
    pc,               \* control position inside load_and_process
    \* ---- CitationManager.merge / process_sources ----
    answer,           \* merge's argument answer
    docs,             \* the chunk list given to merge / process_sources
    grouped_sources,  \* dict (title, filename) -> set of page tokens
    sorted_keys,      \* sorted(grouped_sources.keys(), key=(filename, title))
    output_lines,     \* output_lines, one rendered line per processed key
    sorted_pages_log, \* sorted_pages of every key processed so far
    citations,        \* what process_sources returned (Option)
    merged,           \* what merge returned (Option)
    cpc,              \* control position inside merge / process_sources
    \* ---- CitationManager._parse_citation_string ----
    citation_string,  \* the argument
    parsed,           \* the returned pair (Option)
    ppc               \* control position

ingestVars == <<file_path, raw_documents, idx, current_section, citation_ref,
                processed_docs, returned, printed, pc>>
citeVars   == <<answer, docs, grouped_sources, sorted_keys, output_lines,
                sorted_pages_log, citations, merged, cpc>>
parseVars  == <<citation_string, parsed, ppc>>
vars       == <<ingestVars, citeVars, parseVars>>

(***************************************************************************)
(* Bounds of the model.                                                    *)
(***************************************************************************)
MaxFrags  == 3      \* raw fragments a loader returns
MaxChunks == 3      \* retrieved chunks given to merge
MaxPieces == 5      \* pieces a citation string is assembled from

(***************************************************************************)
(* Python values.                                                          *)
(***************************************************************************)
NoneStr == [some |-> FALSE, val |-> <<>>]
SomeStr(s) == [some |-> TRUE, val |-> s]
NoneInt == [some |-> FALSE, val |-> 0]
SomeInt(n) == [some |-> TRUE, val |-> n]

\* Code points the code names.
Ch == [tab |-> 9, nl |-> 10, sp |-> 32, comma |-> 44, hyphen |-> 45,
       dot |-> 46, slash |-> 47, zero |-> 48, nine |-> 57, underscore |-> 95,
       nbsp |-> 160, section |-> 167]

\* str.isdigit() / \d on one character (ASCII digits; the model's alphabet
\* holds no other Unicode digit).
IsDigitChar(c) == c >= Ch.zero /\ c <= Ch.nine

\* \s of a str pattern, also what str.strip() removes.
IsSpaceChar(c) == c \in {9, 10, 11, 12, 13, 28, 29, 30, 31, 32, 133, 160}

\* \w of a str pattern: ASCII letters, digits, underscore, Cyrillic letters.
IsWordChar(c) ==
    \/ IsDigitChar(c)
    \/ c = Ch.underscore
    \/ (c >= 65 /\ c <= 90) \/ (c >= 97 /\ c <= 122)
    \/ (c >= 1024 /\ c <= 1279)

\* str.lower() on one character: A-Z, the Cyrillic block.
LowerChar(c) ==
    IF c >= 65 /\ c <= 90 THEN c + 32
    ELSE IF c >= 1040 /\ c <= 1071 THEN c + 32
    ELSE IF c >= 1024 /\ c <= 1039 THEN c + 80
    ELSE c

Lower(s) == [i \in 1..Len(s) |-> LowerChar(s[i])]

\* s.isdigit(): non-empty and every character a digit.
IsDigitStr(s) == Len(s) > 0 /\ \A i \in 1..Len(s) : IsDigitChar(s[i])

\* p occurs in s at position i (1-based).
OccursAt(p, s, i) ==
    /\ i >= 1
    /\ i + Len(p) - 1 <= Len(s)
    /\ \A k \in 1..Len(p) : s[i + k - 1] = p[k]

\* `p in s`
Contains(s, p) == \E i \in 1..(Len(s) + 1) : OccursAt(p, s, i)

\* p occurs in s at position i under re.IGNORECASE.
OccursAtIgnoreCase(p, s, i) == OccursAt(Lower(p), Lower(s), i)

\* First position >= i holding a character outside the class, Len(s)+1 if none.
RECURSIVE SkipSpaces(_, _)
SkipSpaces(s, i) ==
    IF i <= Len(s) /\ IsSpaceChar(s[i]) THEN SkipSpaces(s, i + 1) ELSE i

RECURSIVE SkipWord(_, _)
SkipWord(s, i) ==
    IF i <= Len(s) /\ IsWordChar(s[i]) THEN SkipWord(s, i + 1) ELSE i

\* s[i..j) as a string.
Slice(s, i, j) == IF j <= i THEN <<>> ELSE SubSeq(s, i, j - 1)

\* str.strip()
RECURSIVE LStrip(_)
LStrip(s) ==
    IF Len(s) > 0 /\ IsSpaceChar(s[1]) THEN LStrip(Tail(s)) ELSE s

RECURSIVE RStrip(_)
RStrip(s) ==
    IF Len(s) > 0 /\ IsSpaceChar(s[Len(s)])
    THEN RStrip(SubSeq(s, 1, Len(s) - 1)) ELSE s

Strip(s) == RStrip(LStrip(s))

\* str(n) for n >= 0.
RECURSIVE Str(_)
Str(n) == IF n < 10 THEN <<Ch.zero + n>>
          ELSE Str(n \div 10) \o <<Ch.zero + (n % 10)>>

\* int(s) for a string of ASCII digits.
RECURSIVE ToInt(_)
ToInt(s) == IF Len(s) = 0 THEN 0
          ELSE 10 * ToInt(SubSeq(s, 1, Len(s) - 1)) + (s[Len(s)] - Ch.zero)

\* s < t for two str (code point order, a proper prefix is smaller).
RECURSIVE StrLess(_, _)
StrLess(s, t) ==
    IF Len(t) = 0 THEN FALSE
    ELSE IF Len(s) = 0 THEN TRUE
    ELSE IF s[1] # t[1] THEN s[1] < t[1]
    ELSE StrLess(Tail(s), Tail(t))

\* All sequences over S of length at most n.
SeqsUpTo(S, n) == UNION {[1..k -> S] : k \in 0..n}

(***************************************************************************)
(* src/ingestion.py                                                        *)
(***************************************************************************)

\* self.ignore_phrases
ignore_phrases == {
    <<1074, 1089, 1110, 32, 1087, 1088, 1072, 1074, 1072, 32, 1079, 1072,
      1093, 1080, 1097, 1077, 1085, 1110>>,             \* "всі права захищені"
    <<1074, 1080, 1076, 1072, 1074, 1085, 1080, 1094, 1090, 1074, 1086>>,
                                                        \* "видавництво"
    <<1079, 1084, 1110, 1089, 1090>>,                   \* "зміст"
    <<1087, 1077, 1088, 1077, 1076, 1084, 1086, 1074, 1072>>, \* "передмова"
    <<119, 119, 119, 46>>,                              \* "www."
    <<104, 116, 116, 112>>,                             \* "http"
    <<105, 115, 98, 110>>,                              \* "isbn"
    <<1091, 1076, 1082>>,                               \* "удк"
    <<1073, 1073, 1082>>,                               \* "ббк"
    <<169>> }                                           \* "©"

\* re.sub(r'(\w+)-\n\s*(\w+)', r'\1\2', text), scanning from position i:
\* a maximal word run followed by "-\n", optional whitespace and a word
\* character loses the hyphen, the break and the whitespace; the scan
\* resumes after the second word (matches do not overlap).
RECURSIVE Dehyphenate(_, _)
Dehyphenate(t, i) ==
    IF i > Len(t) THEN <<>>
    ELSE IF ~IsWordChar(t[i]) THEN <<t[i]>> \o Dehyphenate(t, i + 1)
    ELSE LET e == SkipWord(t, i)
             f == SkipSpaces(t, e + 2)
         IN  IF /\ e + 1 <= Len(t)
                /\ t[e] = Ch.hyphen
                /\ t[e + 1] = Ch.nl
                /\ f <= Len(t)
                /\ IsWordChar(t[f])
             THEN LET g == SkipWord(t, f)
                  IN  Slice(t, i, e) \o Slice(t, f, g) \o Dehyphenate(t, g)
             ELSE Slice(t, i, e) \o Dehyphenate(t, e)

\* text.replace('\xa0', ' ')
ReplaceNbsp(t) == [i \in 1..Len(t) |-> IF t[i] = Ch.nbsp THEN Ch.sp ELSE t[i]]

\* re.sub(r'\s+', ' ', text)
RECURSIVE CollapseSpaces(_, _)
CollapseSpaces(t, i) ==
    IF i > Len(t) THEN <<>>
    ELSE IF IsSpaceChar(t[i])
         THEN <<Ch.sp>> \o CollapseSpaces(t, SkipSpaces(t, i))
         ELSE <<t[i]>> \o CollapseSpaces(t, i + 1)

\* UniversalDocumentProcessor._clean_text
_clean_text(text) ==
    IF Len(text) = 0 THEN <<>>
    ELSE Strip(CollapseSpaces(ReplaceNbsp(Dehyphenate(text, 1)), 1))

\* UniversalDocumentProcessor._is_garbage
_is_garbage(text) ==
    \/ Len(text) < 5
    \/ IsDigitStr(text)
    \/ \E phrase \in ignore_phrases : Contains(Lower(text), phrase)

\* The keyword patterns r'^Розділ', r'^Глава', r'^Тема'.
HeadingKeywords == {
    <<1056, 1086, 1079, 1076, 1110, 1083>>,   \* "Розділ"
    <<1043, 1083, 1072, 1074, 1072>>,         \* "Глава"
    <<1058, 1077, 1084, 1072>> }              \* "Тема"

\* re.match(r'^§\s?\d+', text): the section sign, at most one whitespace
\* character, at least one digit.
MatchesSectionSign(text) ==
    /\ Len(text) >= 2
    /\ text[1] = Ch.section
    /\ \/ IsDigitChar(text[2])
       \/ Len(text) >= 3 /\ IsSpaceChar(text[2]) /\ IsDigitChar(text[3])

\* UniversalDocumentProcessor._extract_citation_ref
_extract_citation_ref(text) ==
    IF \/ MatchesSectionSign(text)
       \/ \E kw \in HeadingKeywords : OccursAtIgnoreCase(kw, text, 1)
    THEN SomeStr(text)
    ELSE NoneStr

\* Truth value of an Optional[str]: neither None nor "".
Truthy(opt) == opt.some /\ Len(opt.val) > 0

\* doc.metadata.get('page', doc.metadata.get('page_number'))
PageNum(metadata) ==
    IF "page" \in DOMAIN metadata THEN SomeInt(metadata["page"])
    ELSE IF "page_number" \in DOMAIN metadata
         THEN SomeInt(metadata["page_number"])
         ELSE NoneInt

\* ", Стор. "
PagePrefix == <<44, 32, 1057, 1090, 1086, 1088, 46, 32>>

\* Mutant of PageInfo: the loader's zero-based number is displayed as it is.
PageInfo_ZeroBased(page_num) ==
    IF page_num.some THEN PagePrefix \o Str(page_num.val) ELSE <<>>

\* page_info = f", Стор. {page_num + 1}" if page_num is not None else ""
PageInfo(page_num) ==
    IF page_num.some THEN PagePrefix \o Str(page_num.val + 1) ELSE <<>>

\* str(page_num + 1) if page_num is not None else None
PageNumberField(page_num) ==
    IF page_num.some THEN SomeStr(Str(page_num.val + 1)) ELSE NoneStr

\* The start values of the tracker: "Вступ", "Загальний контекст".
StartSection == <<1042, 1089, 1090, 1091, 1087>>
StartCitationRef == <<1047, 1072, 1075, 1072, 1083, 1100, 1085, 1080, 1081,
                      32, 1082, 1086, 1085, 1090, 1077, 1082, 1089, 1090>>

\* "Розділ: " and "\nТекст: " of injected_content.
SectionLabel == <<1056, 1086, 1079, 1076, 1110, 1083, 58, 32>>
TextLabel == <<10, 1058, 1077, 1082, 1089, 1090, 58, 32>>

\* Last position of character c in s, 0 if it does not occur (str.rfind).
RECURSIVE RFind(_, _)
RFind(s, c) ==
    IF Len(s) = 0 THEN 0
    ELSE IF s[Len(s)] = c THEN Len(s)
    ELSE RFind(SubSeq(s, 1, Len(s) - 1), c)

\* os.path.splitext(path)[-1].lower(): the text from the last dot of the
\* last path component, unless that component has only leading dots before it.
Ext(path) ==
    LET sep == RFind(path, Ch.slash)
        dot == RFind(path, Ch.dot)
    IN  IF dot > sep /\ \E k \in (sep + 1)..(dot - 1) : path[k] # Ch.dot
        THEN Lower(Slice(path, dot, Len(path) + 1))
        ELSE <<>>

ExtPdf == <<46, 112, 100, 102>>               \* ".pdf"
ExtDocx == <<46, 100, 111, 99, 120>>          \* ".docx"
ExtDoc == <<46, 100, 111, 99>>                \* ".doc"

\* The files the processor is constructed on:
\* "d/b.pdf", "a.DOCX", "n.txt", ".pdf" (a hidden file without extension).
FilePaths == {
    <<100, 47, 98, 46, 112, 100, 102>>,
    <<97, 46, 68, 79, 67, 88>>,
    <<110, 46, 116, 120, 116>>,
    <<46, 112, 100, 102>> }

\* Raw page_content values a loader may return:
\*   " Тема\xa01\n"  a heading once cleaned ("Тема 1")
\*   "ГЛАВА 2"       a heading in another case
\*   "тек-\nст"      body text with a word split across a line break
\*   "Тема ©"        matches a heading pattern and holds a stop phrase
\*   "12"            digits only
\*   "Тема, стор. 3" a heading that itself holds a comma and a page marker
RawTexts == {
    <<1058, 1077, 1084, 1072, 44, 32, 1089, 1090, 1086, 1088, 46, 32, 51>>,
    <<32, 1058, 1077, 1084, 1072, 160, 49, 10>>,
    <<1043, 1051, 1040, 1042, 1040, 32, 50>>,
    <<1090, 1077, 1082, 45, 10, 1089, 1090>>,
    <<1058, 1077, 1084, 1072, 32, 169>>,
    <<49, 50>> }

\* Zero-based page numbers a loader may report.
RawPages == {0, 9}

\* PyPDFLoader: one Document per page, metadata 'page'.
PdfDocuments ==
    {[page_content |-> t, metadata |-> [page |-> p]] :
        t \in RawTexts, p \in RawPages}

\* UnstructuredWordDocumentLoader(mode="elements"): one Document per element,
\* metadata 'page_number' when the element has one.
DocxDocuments ==
    {[page_content |-> t, metadata |-> [page_number |-> p]] :
        t \in RawTexts, p \in {0}}
    \cup {[page_content |-> t, metadata |-> <<>>] : t \in RawTexts}

\* The Document built at lines 92-102 from the cleaned content.
NewDoc(path, section, ref, content, page_num) ==
    [page_content |-> SectionLabel \o section \o TextLabel \o content,
     metadata |-> [source |-> path,
                   section |-> section,
                   citation_ref |-> ref \o PageInfo(page_num),
                   page_number |-> PageNumberField(page_num)]]

\* Mutant of TrackedRef: a heading is not applied to the tracker.
TrackedRef_NoUpdate(ref, content) == ref

\* The tracker state after looking at one non-garbage fragment (lines 87-90).
TrackedRef(ref, content) ==
    LET ref_candidate == _extract_citation_ref(content)
    IN  IF Truthy(ref_candidate) THEN ref_candidate.val ELSE ref

\* splitter.split_documents(processed_docs): every content of the model is
\* shorter than chunk_size, so each Document gives one chunk with its
\* content and metadata.
SplitDocuments(ds) == ds

NotReturned == [some |-> FALSE, val |-> <<>>]
Returned(v) == [some |-> TRUE, val |-> v]

\* Lines 59-62 and 75-76: the PDF loader returns its pages.
LoadPdf ==
    /\ pc = "start"
    /\ Ext(file_path) = ExtPdf
    /\ \E loaded \in SeqsUpTo(PdfDocuments, MaxFrags) : raw_documents' = loaded
    /\ idx' = 1
    /\ current_section' = StartSection
    /\ citation_ref' = StartCitationRef
    /\ printed' = <<"start", "pdf">>
    /\ pc' = "loop"
    /\ UNCHANGED <<file_path, processed_docs, returned>>
    /\ UNCHANGED <<citeVars, parseVars>>

\* Lines 64-71 and 75-76: the Word loader returns its elements.
LoadDocx ==
    /\ pc = "start"
    /\ Ext(file_path) \in {ExtDocx, ExtDoc}
    /\ \E loaded \in SeqsUpTo(DocxDocuments, MaxFrags) : raw_documents' = loaded
    /\ idx' = 1
    /\ current_section' = StartSection
    /\ citation_ref' = StartCitationRef
    /\ printed' = <<"start", "docx">>
    /\ pc' = "loop"
    /\ UNCHANGED <<file_path, processed_docs, returned>>
    /\ UNCHANGED <<citeVars, parseVars>>

\* Lines 61-62 / 66-71 raise; lines 116-118 print the error and return [].
LoaderRaises ==
    /\ pc = "start"
    /\ Ext(file_path) \in {ExtPdf, ExtDocx, ExtDoc}
    /\ printed' = <<"start",
                    IF Ext(file_path) = ExtPdf THEN "pdf" ELSE "docx",
                    "error">>
    /\ returned' = Returned(<<>>)
    /\ pc' = "return_except"
    /\ UNCHANGED <<file_path, raw_documents, idx, current_section,
                   citation_ref, processed_docs>>
    /\ UNCHANGED <<citeVars, parseVars>>

\* Lines 72-73 raise ValueError; lines 116-118 print it and return [].
UnsupportedFormat ==
    /\ pc = "start"
    /\ Ext(file_path) \notin {ExtPdf, ExtDocx, ExtDoc}
    /\ printed' = <<"start", "error">>
    /\ returned' = Returned(<<>>)
    /\ pc' = "return_except"
    /\ UNCHANGED <<file_path, raw_documents, idx, current_section,
                   citation_ref, processed_docs>>
    /\ UNCHANGED <<citeVars, parseVars>>

\* Mutant of ProcessFragment: the garbage filter runs after the tracker has
\* looked at the fragment.
ProcessFragment_LateFilter ==
    /\ pc = "loop"
    /\ idx <= Len(raw_documents)
    /\ LET doc == raw_documents[idx]
           content == _clean_text(doc.page_content)
           page_num == PageNum(doc.metadata)
       IN  /\ current_section' = TrackedRef(current_section, content)
           /\ citation_ref' = TrackedRef(citation_ref, content)
           /\ IF _is_garbage(content)
              THEN UNCHANGED processed_docs
              ELSE processed_docs' =
                       Append(processed_docs,
                              NewDoc(file_path,
                                     TrackedRef(current_section, content),
                                     TrackedRef(citation_ref, content),
                                     content, page_num))
    /\ idx' = idx + 1
    /\ UNCHANGED <<file_path, raw_documents, returned, printed, pc>>
    /\ UNCHANGED <<citeVars, parseVars>>

\* One iteration of the loop at lines 78-103.
ProcessFragment ==
    /\ pc = "loop"
    /\ idx <= Len(raw_documents)
    /\ LET doc == raw_documents[idx]
           content == _clean_text(doc.page_content)
           page_num == PageNum(doc.metadata)
       IN  IF _is_garbage(content)
           THEN UNCHANGED <<current_section, citation_ref, processed_docs>>
           ELSE /\ current_section' = TrackedRef(current_section, content)
                /\ citation_ref' = TrackedRef(citation_ref, content)
                /\ processed_docs' =
                       Append(processed_docs,
                              NewDoc(file_path,
                                     TrackedRef(current_section, content),
                                     TrackedRef(citation_ref, content),
                                     content, page_num))
    /\ idx' = idx + 1
    /\ UNCHANGED <<file_path, raw_documents, returned, printed, pc>>
    /\ UNCHANGED <<citeVars, parseVars>>

\* Lines 106-114: the splitter runs and the chunks are returned.
SplitAndReturn ==
    /\ pc = "loop"
    /\ idx > Len(raw_documents)
    /\ returned' = Returned(SplitDocuments(processed_docs))
    /\ printed' = Append(printed, "success")
    /\ pc' = "return_ok"
    /\ UNCHANGED <<file_path, raw_documents, idx, current_section,
                   citation_ref, processed_docs>>
    /\ UNCHANGED <<citeVars, parseVars>>

\* Lines 106-112 raise; lines 116-118 print the error and return [].
SplitterRaises ==
    /\ pc = "loop"
    /\ idx > Len(raw_documents)
    /\ returned' = Returned(<<>>)
    /\ printed' = Append(printed, "error")
    /\ pc' = "return_except"
    /\ UNCHANGED <<file_path, raw_documents, idx, current_section,
                   citation_ref, processed_docs>>
    /\ UNCHANGED <<citeVars, parseVars>>

IngestNext ==
    \/ LoadPdf
    \/ LoadDocx
    \/ LoaderRaises
    \/ UnsupportedFormat
    \/ ProcessFragment
    \/ SplitAndReturn
    \/ SplitterRaises

(***************************************************************************)
(* src/citation_handler.py                                                 *)
(***************************************************************************)

\* CitationManager._clean_filename: os.path.basename, the text after the
\* last slash.
_clean_filename(path) == Slice(path, RFind(path, Ch.slash) + 1, Len(path) + 1)

MarkerStor == <<1057, 1090, 1086, 1088>>      \* "Стор" (and "стор")
MarkerPage == <<80, 97, 103, 101>>            \* "Page"

\* (?:Стор\.?|Page|стор\.?) under re.IGNORECASE tried at position m: the
\* position after the marker, 0 when no alternative matches.  Only the
\* Cyrillic alternatives take a dot.
MarkerEnd(cs, m) ==
    IF OccursAtIgnoreCase(MarkerStor, cs, m)
    THEN IF m + 4 <= Len(cs) /\ cs[m + 4] = Ch.dot THEN m + 5 ELSE m + 4
    ELSE IF OccursAtIgnoreCase(MarkerPage, cs, m) THEN m + 4
    ELSE 0

\* A comma from which ,\s*(?:...) matches.
MarkerComma(cs, c) ==
    /\ c \in 1..Len(cs)
    /\ cs[c] = Ch.comma
    /\ MarkerEnd(cs, SkipSpaces(cs, c + 1)) # 0

\* Start of the line holding position c ('.' does not match a newline).
RECURSIVE LineStart(_, _)
LineStart(cs, c) ==
    IF c <= 1 THEN 1
    ELSE IF cs[c - 1] = Ch.nl THEN c
    ELSE LineStart(cs, c - 1)

\* First newline at or after position r, Len(cs)+1 if none.
RECURSIVE LineEnd(_, _)
LineEnd(cs, r) ==
    IF r > Len(cs) THEN Len(cs) + 1
    ELSE IF cs[r] = Ch.nl THEN r
    ELSE LineEnd(cs, r + 1)

Min(S) == CHOOSE x \in S : \A y \in S : x <= y
Max(S) == CHOOSE x \in S : \A y \in S : x >= y

\* Mutant of _parse_citation_string: a lazy (.*?) stops at the first comma a
\* marker follows.
_parse_citation_string_FirstComma(cs) ==
    LET commas == {c \in 1..Len(cs) : MarkerComma(cs, c)}
    IN  IF commas = {} THEN [title |-> cs, page |-> NoneStr]
        ELSE LET s == Min({LineStart(cs, c) : c \in commas})
                 c == Min({k \in commas : LineStart(cs, k) = s})
                 r == SkipSpaces(cs, MarkerEnd(cs, SkipSpaces(cs, c + 1)))
             IN  [title |-> Strip(Slice(cs, s, c)),
                  page |-> SomeStr(Strip(Slice(cs, r, LineEnd(cs, r))))]

\* CitationManager._parse_citation_string: re.search takes the leftmost
\* start, the greedy (.*) the last comma of that line a marker follows.
_parse_citation_string(cs) ==
    LET commas == {c \in 1..Len(cs) : MarkerComma(cs, c)}
    IN  IF commas = {} THEN [title |-> cs, page |-> NoneStr]
        ELSE LET s == Min({LineStart(cs, c) : c \in commas})
                 c == Max({k \in commas : LineStart(cs, k) = s})
                 r == SkipSpaces(cs, MarkerEnd(cs, SkipSpaces(cs, c + 1)))
             IN  [title |-> Strip(Slice(cs, s, c)),
                  page |-> SomeStr(Strip(Slice(cs, r, LineEnd(cs, r))))]

\* The defaults of lines 38-39: "Загальний контекст", "Невідомий файл".
DefaultCitationRef == StartCitationRef
DefaultSource == <<1053, 1077, 1074, 1110, 1076, 1086, 1084, 1080, 1081, 32,
                   1092, 1072, 1081, 1083>>

\* doc.metadata.get(key, default)
MetaGet(metadata, key, default) ==
    IF key \in DOMAIN metadata THEN metadata[key] ELSE default

\* The key (title, filename) and the page of one chunk (lines 38-44).
ChunkCitation(doc) ==
    LET raw_ref == MetaGet(doc.metadata, "citation_ref", DefaultCitationRef)
        filepath == MetaGet(doc.metadata, "source", DefaultSource)
        p == _parse_citation_string(raw_ref)
    IN  [key |-> <<p.title, _clean_filename(filepath)>>, page |-> p.page]

\* Lines 46-50 on the dict g.
AddSource(g, key, page) ==
    [k \in (DOMAIN g) \cup {key} |->
        (IF k \in DOMAIN g THEN g[k] ELSE {})
        \cup (IF k = key /\ Truthy(page) THEN {page.val} ELSE {})]

\* The loop of lines 37-50 from chunk i on.
RECURSIVE GroupSources(_, _, _)
GroupSources(ds, i, g) ==
    IF i > Len(ds) THEN g
    ELSE LET c == ChunkCitation(ds[i])
         IN  GroupSources(ds, i + 1, AddSource(g, c.key, c.page))

\* Mutant of KeyLess: the sort key is (title, filename).
KeyLess_TitleFirst(k1, k2) ==
    \/ StrLess(k1[1], k2[1])
    \/ k1[1] = k2[1] /\ StrLess(k1[2], k2[2])

\* (x[1], x[0]) of one key is smaller than that of another.
KeyLess(k1, k2) ==
    \/ StrLess(k1[2], k2[2])
    \/ k1[2] = k2[2] /\ StrLess(k1[1], k2[1])

\* sorted(grouped_sources.keys(), key=lambda x: (x[1], x[0])): the keys of a
\* dict are distinct, so the order is total.
RECURSIVE SortedKeys(_)
SortedKeys(S) ==
    IF S = {} THEN <<>>
    ELSE LET least == CHOOSE k \in S : \A o \in S \ {k} : KeyLess(k, o)
         IN  <<least>> \o SortedKeys(S \ {least})

\* The sort at lines 60-63 raises TypeError when it compares an int key with
\* a str key, which it does whenever the set holds both kinds.
MixedKeys(pages) ==
    \E p \in pages, q \in pages : IsDigitStr(p) /\ ~IsDigitStr(q)

\* Mutant of PageLess: the pages are compared as strings (key=str).
PageLess_Lexical(x, y) == StrLess(x, y)

\* key(x) < key(y) for two pages whose keys are of one kind.
PageLess(x, y) ==
    IF IsDigitStr(x) /\ IsDigitStr(y) THEN ToInt(x) < ToInt(y)
    ELSE StrLess(x, y)

\* What sorted(list(pages), key=...) can return: the sort is stable and the
\* iteration order of a set is arbitrary, so pages with equal keys ("2",
\* "02") may come in either order.
SortedPages(pages) ==
    {sp \in [1..Cardinality(pages) -> pages] :
        /\ \A i, j \in DOMAIN sp : i # j => sp[i] # sp[j]
        /\ \A i, j \in DOMAIN sp : i < j => ~PageLess(sp[j], sp[i])}

\* sep.join(parts)
RECURSIVE Join(_, _)
Join(parts, sep) ==
    IF Len(parts) = 0 THEN <<>>
    ELSE IF Len(parts) = 1 THEN parts[1]
    ELSE parts[1] \o sep \o Join(Tail(parts), sep)

\* Lines 59-68: the line of one key.
RenderLine(title, filename, sorted_pages) ==
    IF Len(sorted_pages) > 0
    THEN title \o <<32, 40, 1057, 1090, 1086, 1088, 46, 32>>   \* " (Стор. "
         \o Join(sorted_pages, <<44, 32>>)
         \o <<41, 32, 8212, 32, 91>> \o filename \o <<93>>    \* ") — [" "]"
    ELSE title \o <<32, 8212, 32, 91>> \o filename \o <<93>>   \* " — ["

\* f"{i}. {line}"
NumberedLine(i, line) == Str(i) \o <<46, 32>> \o line

\* "\n\n" + "=" * 30 + "\nДжерела:\n"
SourcesHeader ==
    <<10, 10>> \o [i \in 1..30 |-> 61]
    \o <<10, 1044, 1078, 1077, 1088, 1077, 1083, 1072, 58, 10>>

\* Lines 72-77.
FormatCitations(lines) ==
    IF Len(lines) = 0 THEN <<>>
    ELSE SourcesHeader
         \o Join([i \in 1..Len(lines) |-> NumberedLine(i, lines[i])], <<10>>)

\* Answers given to merge: "", "Ok".
Answers == {<<>>, <<79, 107>>}

\* citation_ref values of retrieved chunks:
\* "Т, Стор. 10", "Т, Стор. 2", "Т, Стор. 9", "Т, стор. iv", "Т, Стор. 02", "У"
Ref10 == <<1058, 44, 32, 1057, 1090, 1086, 1088, 46, 32, 49, 48>>
Ref2 == <<1058, 44, 32, 1057, 1090, 1086, 1088, 46, 32, 50>>
Ref9 == <<1058, 44, 32, 1057, 1090, 1086, 1088, 46, 32, 57>>
RefIv == <<1058, 44, 32, 1089, 1090, 1086, 1088, 46, 32, 105, 118>>
Ref02 == <<1058, 44, 32, 1057, 1090, 1086, 1088, 46, 32, 48, 50>>
RefU == <<1059>>

\* source values of retrieved chunks: "d/b.pdf", "a.pdf".
SourceB == <<100, 47, 98, 46, 112, 100, 102>>
SourceA == <<97, 46, 112, 100, 102>>

\* The chunks retrieval may return.
RetrievedChunks == {
    [metadata |-> [citation_ref |-> Ref10, source |-> SourceB]],
    [metadata |-> [citation_ref |-> Ref2, source |-> SourceB]],
    [metadata |-> [citation_ref |-> Ref9, source |-> SourceB]],
    [metadata |-> [citation_ref |-> RefIv, source |-> SourceB]],
    [metadata |-> [citation_ref |-> Ref02, source |-> SourceB]],
    [metadata |-> [citation_ref |-> Ref2, source |-> SourceA]],
    [metadata |-> [citation_ref |-> RefU, source |-> SourceA]],
    [metadata |-> <<>>] }

\* merge(answer, docs) is called (line 80).
CallMerge ==
    /\ cpc = "ready"
    /\ \E a \in Answers : answer' = a
    /\ \E d \in SeqsUpTo(RetrievedChunks, MaxChunks) : docs' = d
    /\ cpc' = "process_sources"
    /\ UNCHANGED <<grouped_sources, sorted_keys, output_lines,
                   sorted_pages_log, citations, merged>>
    /\ UNCHANGED <<ingestVars, parseVars>>

\* Mutant of ReturnNoSources: the header is rendered for an empty list too.
ReturnNoSources_Header ==
    /\ cpc = "process_sources"
    /\ Len(docs) = 0
    /\ citations' = Returned(SourcesHeader)
    /\ cpc' = "merge"
    /\ UNCHANGED <<answer, docs, grouped_sources, sorted_keys, output_lines,
                   sorted_pages_log, merged>>
    /\ UNCHANGED <<ingestVars, parseVars>>

\* Lines 31-32.
ReturnNoSources ==
    /\ cpc = "process_sources"
    /\ Len(docs) = 0
    /\ citations' = Returned(<<>>)
    /\ cpc' = "merge"
    /\ UNCHANGED <<answer, docs, grouped_sources, sorted_keys, output_lines,
                   sorted_pages_log, merged>>
    /\ UNCHANGED <<ingestVars, parseVars>>

\* Lines 35-54.
GroupAndSort ==
    /\ cpc = "process_sources"
    /\ Len(docs) > 0
    /\ grouped_sources' = GroupSources(docs, 1, <<>>)
    /\ sorted_keys' = SortedKeys(DOMAIN GroupSources(docs, 1, <<>>))
    /\ cpc' = "render"
    /\ UNCHANGED <<answer, docs, output_lines, sorted_pages_log, citations,
                   merged>>
    /\ UNCHANGED <<ingestVars, parseVars>>

\* One iteration of the loop at lines 56-70.
RenderGroup ==
    /\ cpc = "render"
    /\ Len(output_lines) < Len(sorted_keys)
    /\ LET key == sorted_keys[Len(output_lines) + 1]
           pages == grouped_sources[key]
       IN  /\ ~MixedKeys(pages)
           /\ \E sorted_pages \in SortedPages(pages) :
                /\ output_lines' =
                       Append(output_lines,
                              RenderLine(key[1], key[2], sorted_pages))
                /\ sorted_pages_log' = Append(sorted_pages_log, sorted_pages)
    /\ UNCHANGED <<answer, docs, grouped_sources, sorted_keys, citations,
                   merged, cpc>>
    /\ UNCHANGED <<ingestVars, parseVars>>

\* Lines 60-63 raise TypeError, which leaves process_sources and merge.
SortRaises ==
    /\ cpc = "render"
    /\ Len(output_lines) < Len(sorted_keys)
    /\ MixedKeys(grouped_sources[sorted_keys[Len(output_lines) + 1]])
    /\ cpc' = "raised"
    /\ UNCHANGED <<answer, docs, grouped_sources, sorted_keys, output_lines,
                   sorted_pages_log, citations, merged>>
    /\ UNCHANGED <<ingestVars, parseVars>>

\* Lines 72-77.
ReturnCitations ==
    /\ cpc = "render"
    /\ Len(output_lines) = Len(sorted_keys)
    /\ citations' = Returned(FormatCitations(output_lines))
    /\ cpc' = "merge"
    /\ UNCHANGED <<answer, docs, grouped_sources, sorted_keys, output_lines,
                   sorted_pages_log, merged>>
    /\ UNCHANGED <<ingestVars, parseVars>>

\* Line 82.
MergeReturn ==
    /\ cpc = "merge"
    /\ merged' = Returned(answer \o citations.val)
    /\ cpc' = "done"
    /\ UNCHANGED <<answer, docs, grouped_sources, sorted_keys, output_lines,
                   sorted_pages_log, citations>>
    /\ UNCHANGED <<ingestVars, parseVars>>

CiteNext ==
    \/ CallMerge
    \/ ReturnNoSources
    \/ GroupAndSort
    \/ RenderGroup
    \/ SortRaises
    \/ ReturnCitations
    \/ MergeReturn

\* Pieces citation strings are assembled from:
\* "Т", ",", " ", ".", "5", "Page", "СТОР"
Pieces == {<<1058>>, <<44>>, <<32>>, <<46>>, <<53>>,
           <<80, 97, 103, 101>>, <<1057, 1058, 1054, 1056>>}

\* The concatenation of a sequence of strings.
Concat(parts) == Join(parts, <<>>)

\* _parse_citation_string(citation_string) is called and returns.
ParseCitation ==
    /\ ppc = "ready"
    /\ \E parts \in SeqsUpTo(Pieces, MaxPieces) :
         /\ citation_string' = Concat(parts)
         /\ parsed' = Returned(_parse_citation_string(Concat(parts)))
    /\ ppc' = "done"
    /\ UNCHANGED <<ingestVars, citeVars>>

ParseNext == ParseCitation

(***************************************************************************)
(* Specifications.                                                         *)
(***************************************************************************)

\* One call of load_and_process on a freshly constructed processor.
InitIngest ==
    /\ file_path \in FilePaths
    /\ raw_documents = <<>>
    /\ idx = 0
    /\ current_section = <<>>
    /\ citation_ref = <<>>
    /\ processed_docs = <<>>
    /\ returned = NotReturned
    /\ printed = <<>>
    /\ pc = "start"
    /\ answer = <<>>
    /\ docs = <<>>
    /\ grouped_sources = <<>>
    /\ sorted_keys = <<>>
    /\ output_lines = <<>>
    /\ sorted_pages_log = <<>>
    /\ citations = NotReturned
    /\ merged = NotReturned
    /\ cpc = "idle"
    /\ citation_string = <<>>
    /\ parsed = NotReturned
    /\ ppc = "idle"

SpecIngest == InitIngest /\ [][IngestNext]_vars

\* One call of CitationManager.merge.
InitCite ==
    /\ file_path = <<>>
    /\ raw_documents = <<>>
    /\ idx = 0
    /\ current_section = <<>>
    /\ citation_ref = <<>>
    /\ processed_docs = <<>>
    /\ returned = NotReturned
    /\ printed = <<>>
    /\ pc = "idle"
    /\ answer = <<>>
    /\ docs = <<>>
    /\ grouped_sources = <<>>
    /\ sorted_keys = <<>>
    /\ output_lines = <<>>
    /\ sorted_pages_log = <<>>
    /\ citations = NotReturned
    /\ merged = NotReturned
    /\ cpc = "ready"
    /\ citation_string = <<>>
    /\ parsed = NotReturned
    /\ ppc = "idle"

SpecCite == InitCite /\ [][CiteNext]_vars

\* One call of CitationManager._parse_citation_string.
InitParse ==
    /\ file_path = <<>>
    /\ raw_documents = <<>>
    /\ idx = 0
    /\ current_section = <<>>
    /\ citation_ref = <<>>
    /\ processed_docs = <<>>
    /\ returned = NotReturned
    /\ printed = <<>>
    /\ pc = "idle"
    /\ answer = <<>>
    /\ docs = <<>>
    /\ grouped_sources = <<>>
    /\ sorted_keys = <<>>
    /\ output_lines = <<>>
    /\ sorted_pages_log = <<>>
    /\ citations = NotReturned
    /\ merged = NotReturned
    /\ cpc = "idle"
    /\ citation_string = <<>>
    /\ parsed = NotReturned
    /\ ppc = "ready"

SpecParse == InitParse /\ [][ParseNext]_vars

(***************************************************************************)
(* Properties of load_and_process (checked under SpecIngest).              *)
(***************************************************************************)

\* The cleaned text of every raw text, whether it is garbage and whether it
\* matches a heading pattern.
CleanOf == [t \in RawTexts |-> _clean_text(t)]
GarbageOf == [t \in RawTexts |-> _is_garbage(_clean_text(t))]
HeadingOf == [t \in RawTexts |-> _extract_citation_ref(_clean_text(t)).some]

\* The cleaned text of raw fragment i, and whether the loop retains it.
RawClean(i) == CleanOf[raw_documents[i].page_content]
Kept(i) == ~GarbageOf[raw_documents[i].page_content]

\* Fragment i is the k-th retained fragment in document order.
IsKthKept(i, k) ==
    /\ i \in 1..Len(raw_documents)
    /\ Kept(i)
    /\ Cardinality({j \in 1..i : Kept(j)}) = k

\* The retained heading fragments at or before fragment n.
HeadingsUpTo(n) ==
    {j \in 1..n : Kept(j) /\ HeadingOf[raw_documents[j].page_content]}

\* The cleaned text of the most recent retained heading at or before
\* fragment n, or the start value when there is none.
HeadingAt(n, start) ==
    IF HeadingsUpTo(n) = {} THEN start ELSE RawClean(Max(HeadingsUpTo(n)))

\* s begins with p.
StartsWith(s, p) == Len(p) <= Len(s) /\ SubSeq(s, 1, Len(p)) = p

\* C1: every emitted fragment carries, as section and as the title part of
\* citation_ref, the cleaned text of the most recent retained heading at or
\* before it (itself included), or the start values when there is none.
C1_HeadingAttribution ==
    \A k \in 1..Len(processed_docs) : \A i \in 1..Len(raw_documents) :
        IsKthKept(i, k) =>
            /\ processed_docs[k].metadata.section = HeadingAt(i, StartSection)
            /\ StartsWith(processed_docs[k].metadata.citation_ref,
                          HeadingAt(i, StartCitationRef))

\* A body fragment under the start values, then a heading attributed to
\* itself, then a body fragment that inherits the heading.
C1_Witness ==
    /\ Len(processed_docs) = 3
    /\ processed_docs[1].metadata.section = StartSection
    /\ IsKthKept(2, 2) /\ 2 \in HeadingsUpTo(2)
    /\ processed_docs[2].metadata.section = RawClean(2)
    /\ IsKthKept(3, 3) /\ 3 \notin HeadingsUpTo(3)
    /\ processed_docs[3].metadata.section = RawClean(2)

\* C2: a garbage fragment changes neither current_section nor citation_ref
\* (the tracker state is that of the retained fragments alone, also when the
\* garbage text matches a heading pattern) and emits nothing: the emitted
\* fragments are the retained fragments, one each, in document order.
C2_GarbageDropped ==
    idx >= 1 =>
        /\ current_section = HeadingAt(idx - 1, StartSection)
        /\ citation_ref = HeadingAt(idx - 1, StartCitationRef)
        /\ Len(processed_docs) = Cardinality({j \in 1..(idx - 1) : Kept(j)})
        /\ \A k \in 1..Len(processed_docs) :
             \E i \in 1..(idx - 1) :
                /\ IsKthKept(i, k)
                /\ processed_docs[k].page_content =
                       SectionLabel \o processed_docs[k].metadata.section
                       \o TextLabel \o RawClean(i)

\* A garbage fragment that matches a heading pattern was passed between two
\* retained fragments.
C2_Witness ==
    /\ idx = 4
    /\ Kept(1) /\ ~Kept(2) /\ Kept(3)
    /\ HeadingOf[raw_documents[2].page_content]
    /\ Len(processed_docs) = 2

\* The zero-based page number raw fragment i carries, if any.
CarriesPage(i) ==
    \/ "page" \in DOMAIN raw_documents[i].metadata
    \/ "page_number" \in DOMAIN raw_documents[i].metadata
CarriedPage(i) ==
    IF "page" \in DOMAIN raw_documents[i].metadata
    THEN raw_documents[i].metadata["page"]
    ELSE raw_documents[i].metadata["page_number"]

\* C8: an emitted fragment whose raw fragment carries the zero-based page p
\* has page_number str(p+1) and citation_ref = current ref + ", Стор. " +
\* str(p+1); one without a page has no page_number and the bare current ref.
\* citation_ref is never empty.
C8_PageDisplay ==
    \A k \in 1..Len(processed_docs) : \A i \in 1..Len(raw_documents) :
        IsKthKept(i, k) =>
            LET md == processed_docs[k].metadata
                ref == HeadingAt(i, StartCitationRef)
            IN  /\ Len(md.citation_ref) > 0
                /\ IF CarriesPage(i)
                   THEN /\ md.page_number.some
                        /\ IsDigitStr(md.page_number.val)
                        /\ md.page_number.val[1] # Ch.zero
                        /\ ToInt(md.page_number.val) = CarriedPage(i) + 1
                        /\ md.citation_ref =
                               ref \o PagePrefix \o md.page_number.val
                   ELSE /\ md.page_number = NoneStr
                        /\ md.citation_ref = ref

\* Fragments with page 0 ("1") and without a page were emitted in one pass.
C8_Witness ==
    /\ \E k \in 1..Len(processed_docs) :
         processed_docs[k].metadata.page_number = SomeStr(<<49>>)
    /\ \E k \in 1..Len(processed_docs) :
         processed_docs[k].metadata.page_number = NoneStr

\* Page 9 is displayed as "10".
C8_WitnessTwoDigits ==
    \E k \in 1..Len(processed_docs) :
        processed_docs[k].metadata.page_number = SomeStr(<<49, 48>>)

\* C10: a loading failure (unsupported extension, loader or splitter
\* exception) gives the caller an outcome other than the one of a document
\* that loaded and yielded no retained fragment.
C10_FailureDistinguishable ==
    pc = "return_except" => returned # Returned(SplitDocuments(<<>>))

\* A document loaded successfully whose fragments were all dropped.
C10_EmptySuccess ==
    /\ pc = "return_ok"
    /\ Len(raw_documents) > 0
    /\ returned = Returned(<<>>)

(***************************************************************************)
(* Properties of merge / process_sources (checked under SpecCite).         *)
(***************************************************************************)

\* The distinct (parsed title, filename) pairs of the chunks, and the
\* distinct non-empty page tokens of one pair.
ChunkPairs == {ChunkCitation(docs[i]).key : i \in 1..Len(docs)}
PagesOf(key) ==
    {ChunkCitation(docs[i]).page.val :
        i \in {j \in 1..Len(docs) :
                 /\ ChunkCitation(docs[j]).key = key
                 /\ Truthy(ChunkCitation(docs[j]).page)}}

\* The elements of a sequence.
Range(sq) == {sq[i] : i \in 1..Len(sq)}

\* s ends with p.
EndsWith(s, p) ==
    Len(p) <= Len(s) /\ SubSeq(s, Len(s) - Len(p) + 1, Len(s)) = p

\* The citation block: header, then the lines numbered from 1, one per line.
NumberedBlock(lines) ==
    SourcesHeader
    \o Join([i \in 1..Len(lines) |-> Str(i) \o <<46, 32>> \o lines[i]],
            <<10>>)

\* C3: process_sources([]) returns "" and merge(answer, []) returns answer
\* exactly, for every answer.
C3_EmptyChunks ==
    Len(docs) = 0 =>
        /\ cpc # "raised"
        /\ cpc \in {"merge", "done"} => citations = Returned(<<>>)
        /\ cpc = "done" => merged = Returned(answer)

\* merge("Ok", []) has returned.
C3_Witness ==
    /\ cpc = "done"
    /\ Len(docs) = 0
    /\ answer = <<79, 107>>

\* One line per distinct pair, each distinct page token of the pair once.
OneLinePerPair ==
    /\ citations.some
    /\ Len(output_lines) = Cardinality(ChunkPairs)
    /\ Len(sorted_keys) = Len(output_lines)
    /\ Len(sorted_pages_log) = Len(output_lines)
    /\ citations.val = NumberedBlock(output_lines)
    /\ \A key \in ChunkPairs :
         Cardinality({i \in 1..Len(sorted_keys) : sorted_keys[i] = key}) = 1
    /\ \A i \in 1..Len(output_lines) :
         LET key == sorted_keys[i]
             listed == sorted_pages_log[i]
         IN  /\ Range(listed) = PagesOf(key)
             /\ Len(listed) = Cardinality(PagesOf(key))
             /\ output_lines[i] = RenderLine(key[1], key[2], listed)

\* C4: for every non-empty chunk list process_sources renders exactly one
\* numbered line per distinct (title, filename) pair, with each distinct
\* non-empty page token of the pair exactly once.
C4_OneLinePerPair ==
    (Len(docs) > 0 /\ cpc \in {"merge", "done", "raised"}) =>
        (cpc # "raised" /\ OneLinePerPair)

\* The same for the calls that return.
C4_WhenReturned ==
    (Len(docs) > 0 /\ cpc \in {"merge", "done"}) => OneLinePerPair

\* f is the last path component of path.
IsLastComponent(f, path) ==
    /\ EndsWith(path, f)
    /\ \A i \in 1..Len(f) : f[i] # Ch.slash
    /\ Len(f) = Len(path) \/ path[Len(path) - Len(f)] = Ch.slash

\* C5: the lines are numbered 1, 2, ... in strictly ascending order of
\* (filename, title), the filename being the last path component of the
\* source; each distinct pair has its own line (the same title in two files
\* gives two lines), so the order is fixed by the set of pairs and not by
\* the order of the chunks.
C5_LineOrder ==
    (Len(docs) > 0 /\ cpc \in {"merge", "done"}) =>
        /\ Range(sorted_keys) = ChunkPairs
        /\ Len(sorted_keys) = Cardinality(ChunkPairs)
        /\ \A i \in 1..Len(docs) :
             IsLastComponent(ChunkCitation(docs[i]).key[2],
                             MetaGet(docs[i].metadata, "source",
                                     DefaultSource))
        /\ \A i, j \in 1..Len(sorted_keys) :
             i < j =>
                \/ StrLess(sorted_keys[i][2], sorted_keys[j][2])
                \/ /\ sorted_keys[i][2] = sorted_keys[j][2]
                   /\ StrLess(sorted_keys[i][1], sorted_keys[j][1])
        /\ Len(output_lines) = Len(sorted_keys)
        /\ \A i \in 1..Len(output_lines) :
             /\ StartsWith(output_lines[i], sorted_keys[i][1])
             /\ EndsWith(output_lines[i],
                         <<32, 8212, 32, 91>> \o sorted_keys[i][2] \o <<93>>)
        /\ citations.val = NumberedBlock(output_lines)

\* Title "Т" in a.pdf and in b.pdf, and "У" in a.pdf: (У, a.pdf) comes
\* before (Т, b.pdf) although "Т" < "У".
C5_Witness ==
    /\ cpc = "done"
    /\ sorted_keys = << <<(<<1058>>), SourceA>>,
                        <<RefU, SourceA>>,
                        <<(<<1058>>), <<98, 46, 112, 100, 102>> >> >>

\* C6: every line built for a group whose page tokens are all numeric lists
\* the group's pages in ascending integer order; when process_sources
\* returns, every group has its line.
C6_NumericPagesAscending ==
    /\ cpc \in {"merge", "done"} /\ Len(docs) > 0 =>
           Len(output_lines) = Cardinality(ChunkPairs)
    /\ \A i \in 1..Len(output_lines) :
         LET key == sorted_keys[i]
             listed == sorted_pages_log[i]
         IN  (PagesOf(key) # {} /\ \A p \in PagesOf(key) : IsDigitStr(p)) =>
                /\ Range(listed) = PagesOf(key)
                /\ \A a, b \in 1..Len(listed) :
                     a < b => ToInt(listed[a]) <= ToInt(listed[b])
                /\ output_lines[i] =
                       key[1] \o <<32, 40, 1057, 1090, 1086, 1088, 46, 32>>
                       \o Join(listed, <<44, 32>>)
                       \o <<41, 32, 8212, 32, 91>> \o key[2] \o <<93>>

\* Pages "10", "2", "9" of one group were rendered as "2, 9, 10".
C6_Witness ==
    /\ cpc = "done"
    /\ \E i \in 1..Len(output_lines) :
         /\ sorted_pages_log[i] = << <<50>>, <<57>>, <<49, 48>> >>
         /\ output_lines[i] =
                <<1058, 32, 40, 1057, 1090, 1086, 1088, 46, 32,
                  50, 44, 32, 57, 44, 32, 49, 48,
                  41, 32, 8212, 32, 91, 98, 46, 112, 100, 102, 93>>

\* C9: a call with a group holding numeric and non-numeric tokens at once
\* completes without raising and lists the group's pages in one order, the
\* numeric tokens by value and the non-numeric tokens lexically.
C9_MixedPagesRendered ==
    \A key \in ChunkPairs :
        (cpc \in {"done", "raised"} /\ MixedKeys(PagesOf(key))) =>
            /\ cpc = "done"
            /\ \E i \in 1..Len(output_lines) :
                 /\ sorted_keys[i] = key
                 /\ Range(sorted_pages_log[i]) = PagesOf(key)
                 /\ \A a, b \in 1..Len(sorted_pages_log[i]) :
                      LET x == sorted_pages_log[i][a]
                          y == sorted_pages_log[i][b]
                      IN  /\ (a < b /\ IsDigitStr(x) /\ IsDigitStr(y)) =>
                                ToInt(x) <= ToInt(y)
                          /\ (a < b /\ ~IsDigitStr(x) /\ ~IsDigitStr(y)) =>
                                StrLess(x, y)

\* A group with pages "2" and "iv" was reached by the rendering loop.
C9_MixedGroupReached ==
    /\ cpc = "raised"
    /\ \E key \in ChunkPairs : PagesOf(key) = {<<50>>, <<105, 118>>}

(***************************************************************************)
(* Properties of _parse_citation_string (checked under SpecParse).         *)
(***************************************************************************)

\* A page marker (a case variant of Page / Стор / стор) stands at m.
IsMarkerAt(cs, m) ==
    \/ OccursAtIgnoreCase(MarkerPage, cs, m)
    \/ OccursAtIgnoreCase(MarkerStor, cs, m)

\* The commas of cs followed, after optional whitespace, by a page marker.
FormCommas(cs) ==
    {c \in 1..Len(cs) :
        cs[c] = Ch.comma /\ IsMarkerAt(cs, SkipSpaces(cs, c + 1))}

\* The pair the form gives for comma c when the dot after the marker, if
\* there is one, belongs to the marker.
FormPair(cs, c) ==
    LET m == SkipSpaces(cs, c + 1)
        after == IF m + 4 <= Len(cs) /\ cs[m + 4] = Ch.dot
                 THEN m + 5 ELSE m + 4
    IN  [title |-> Strip(Slice(cs, 1, c)),
         page |-> SomeStr(Strip(Slice(cs, after, Len(cs) + 1)))]

\* C7: an input of the form <text>, <marker><optional dot><whitespace><rest>
\* gives (text trimmed, rest trimmed); every other input gives (input, None).
C7_ParseForm ==
    ppc = "done" =>
        IF FormCommas(citation_string) = {}
        THEN parsed = Returned([title |-> citation_string, page |-> NoneStr])
        ELSE \E c \in FormCommas(citation_string) :
                parsed = Returned(FormPair(citation_string, c))

\* The pair for comma c when only the Cyrillic marker takes the dot.
FormPairCyrillicDot(cs, c) ==
    LET m == SkipSpaces(cs, c + 1)
        after == IF /\ OccursAtIgnoreCase(MarkerStor, cs, m)
                    /\ m + 4 <= Len(cs) /\ cs[m + 4] = Ch.dot
                 THEN m + 5 ELSE m + 4
    IN  [title |-> Strip(Slice(cs, 1, c)),
         page |-> SomeStr(Strip(Slice(cs, after, Len(cs) + 1)))]

\* What the code does: as C7, the dot being optional after Стор / стор only
\* and the comma being the last one a marker follows.
C7_DotAfterCyrillicOnly ==
    ppc = "done" =>
        IF FormCommas(citation_string) = {}
        THEN parsed = Returned([title |-> citation_string, page |-> NoneStr])
        ELSE parsed = Returned(FormPairCyrillicDot(citation_string,
                                   Max(FormCommas(citation_string))))

\* "Т,Page.5" was parsed.
C7_PageDotParsed ==
    /\ ppc = "done"
    /\ citation_string = <<1058, 44, 80, 97, 103, 101, 46, 53>>

(***************************************************************************)
(* Round trip between load_and_process and _parse_citation_string          *)
(* (checked under SpecIngest).                                             *)
(***************************************************************************)

\* The citation_ref values load_and_process can build from RawTexts and
\* RawPages, each with what _parse_citation_string returns for it.
EmittableRefs ==
    {r \o PageInfo(pg) :
        r \in {StartCitationRef} \cup {CleanOf[t] : t \in RawTexts},
        pg \in {NoneInt} \cup {SomeInt(n) : n \in RawPages \cup {0}}}
ParsedRef == [cs \in EmittableRefs |-> _parse_citation_string(cs)]
ParseOf(cs) ==
    IF cs \in EmittableRefs THEN ParsedRef[cs] ELSE _parse_citation_string(cs)

\* The (title, filename) key process_sources files a fragment under.
FileNameOf == [f \in FilePaths |-> _clean_filename(f)]
GroupKey(doc) ==
    <<ParseOf(doc.metadata.citation_ref).title,
      IF doc.metadata.source \in FilePaths
      THEN FileNameOf[doc.metadata.source]
      ELSE _clean_filename(doc.metadata.source)>>

\* The emitted fragments whose raw fragment carries a page number.
PagedEmitted ==
    {k \in 1..Len(processed_docs) :
        \E i \in 1..Len(raw_documents) : IsKthKept(i, k) /\ CarriesPage(i)}

\* C11: parsing the citation_ref of an emitted fragment whose raw fragment
\* carries the zero-based page p gives back (the current citation ref at
\* emission, str(p+1)), also when the heading itself holds a comma followed
\* by a page marker; so the paged fragments of one section get one
\* (title, filename) key in process_sources.
C11_RoundTrip ==
    /\ \A k \in 1..Len(processed_docs) : \A i \in 1..Len(raw_documents) :
         (IsKthKept(i, k) /\ CarriesPage(i)) =>
            LET p == ParseOf(processed_docs[k].metadata.citation_ref)
            IN  /\ p.title = HeadingAt(i, StartCitationRef)
                /\ p.page.some
                /\ IsDigitStr(p.page.val)
                /\ p.page.val[1] # Ch.zero
                /\ ToInt(p.page.val) = CarriedPage(i) + 1
    /\ \A k1, k2 \in PagedEmitted :
         processed_docs[k1].metadata.section
             = processed_docs[k2].metadata.section
         => /\ GroupKey(processed_docs[k1]) = GroupKey(processed_docs[k2])
            /\ GroupKey(processed_docs[k1])[2] = FileNameOf[file_path]

\* Two paged fragments were emitted under the heading "Тема, стор. 3".
C11_Witness ==
    /\ Len(processed_docs) >= 2
    /\ PagedEmitted = 1..Len(processed_docs)
    /\ \A k \in 1..2 :
         /\ processed_docs[k].metadata.section =
                <<1058, 1077, 1084, 1072, 44, 32, 1089, 1090, 1086, 1088,
                  46, 32, 51>>
         /\ FormCommas(processed_docs[k].metadata.section) # {}
    /\ processed_docs[1].metadata.citation_ref
           # processed_docs[2].metadata.citation_ref

=============================================================================
